---- MODULE Spec2Model ----
(***************************************************************************)
(* Token lifecycle and revocation engine of the JWT tutorial server:       *)
(* login (store), the jwtAuthenticatedUser middleware, the refresh handler *)
(* (replace), the logout handler (destroy) and the Redis deny-list.        *)
(*                                                                         *)
(* Granularity.  Node runs one handler at a time until it reaches an       *)
(* `await`; every action below is one such synchronous segment.  ioredis   *)
(* sends the commands of its single connection in the order they are       *)
(* issued and Redis executes them in that order, so a command takes effect *)
(* on the deny-list at the step that issues it; its reply is consumed by   *)
(* the next segment of the request.                                        *)
(*                                                                         *)
(* Time.  One unit of `now` stands for an arbitrary number of seconds; the *)
(* lifetimes keep the order of the configuration (margin <= access         *)
(* lifetime < refresh lifetime).  StartTime is the epoch clock at start.   *)
(***************************************************************************)
EXTENDS Integers, Sequences, FiniteSets, TLC

\* ---------------------------------------------------------------- bounds
MaxPairs == 2
MaxRacePairs == 3
MaxTime == 1
Horizon == 5
StartTime == 10

\* ------------------------------------------------- configuration (scaled)
AccessTTL == 1
RefreshTTL == 3
Margin == 1

JWTalgorithm == "HS256"
\* jsonwebtoken: algorithms accepted for a string secret when the caller
\* passes no `algorithms` option
DefaultAlgorithms == {"HS256", "HS384", "HS512"}

Users == {"u1", "u2"}
Req == {1, 2}
Routes == {"GET", "PUT", "DELETE"}
NoUser == "nobody"
NoJti == 0

\* now    the clock (epoch time, scaled)
\* pairs  the token pairs issued so far, by pairing identifier (jti); with each
\*        its history: the pairing whose refresh minted it (NoJti for a login)
\*        and the type of the token with which a logout first returned 204
\*        ("none" while no logout has)
\* redis  the deny-list: the record stored under `revoked-jwt:<jti>`
\* users  the rows of the users table
\* req    the requests in flight, one per slot
VARIABLES now, pairs, redis, users, req

vars == <<now, pairs, redis, users, req>>

\* ------------------------------------------------------------------ tokens
\* A token as the codec sees it: `form` says whether the string is a JWT at
\* all, `sig` whether its signature verifies under JWT.secret.
Absent ==
    [form |-> "absent", jti |-> NoJti, userId |-> NoUser, tokenType |-> "none",
     iat |-> 0, exp |-> 0, alg |-> "none", sig |-> "none"]

Garbage == [Absent EXCEPT !.form = "garbage"]

\* jwt.sign(payload, JWT.secret, {expiresIn, algorithm, jwtid})
sign(userId, tokenType, jwtid, iat, expiresIn) ==
    [form |-> "jwt", jti |-> jwtid, userId |-> userId, tokenType |-> tokenType,
     iat |-> iat, exp |-> iat + expiresIn, alg |-> JWTalgorithm, sig |-> "ok"]

\* variant: the second token is signed with the first one's tokenType
generateTokens_sameType(userId, jwtid, t) ==
    [accessToken  |-> sign(userId, "access", jwtid, t, AccessTTL),
     refreshToken |-> sign(userId, "access", jwtid, t, RefreshTTL)]

\* generateTokens(userId) at clock t with the fresh uuidv7 `jwtid`
generateTokens(userId, jwtid, t) ==
    [accessToken  |-> sign(userId, "access", jwtid, t, AccessTTL),
     refreshToken |-> sign(userId, "refresh", jwtid, t, RefreshTTL)]

\* the pair that was issued under pairing identifier j
PairOf(j) == generateTokens(pairs[j].userId, j, pairs[j].iat)

NewPair(userId, t, parent) ==
    [userId |-> userId, iat |-> t, parent |-> parent, loggedOut |-> "none"]

Issued == 1..Len(pairs)

GenuineTokens ==
    UNION {{PairOf(j).accessToken, PairOf(j).refreshToken} : j \in Issued}

Partner(t) ==
    IF t.tokenType = "access" THEN PairOf(t.jti).refreshToken
    ELSE PairOf(t.jti).accessToken

\* jwt.verify(token, secret, {algorithms, jwtid, ignoreExpiration}) at `clock`
NoJwtidOption == NoJti

\* variant: the ignoreExpiration option is not looked at
verify_alwaysExpiry(token, algorithms, jwtid, ignoreExpiration, clock) ==
    IF token.form # "jwt" THEN "jwt malformed"
    ELSE IF token.alg \notin algorithms THEN "invalid algorithm"
    ELSE IF token.sig # "ok" THEN "invalid signature"
    ELSE IF clock >= token.exp THEN "jwt expired"
    ELSE IF jwtid # NoJwtidOption /\ token.jti # jwtid THEN "jwt jwtid invalid"
    ELSE "ok"

\* variant: the jwtid option is not looked at
verify_noJwtid(token, algorithms, jwtid, ignoreExpiration, clock) ==
    IF token.form # "jwt" THEN "jwt malformed"
    ELSE IF token.alg \notin algorithms THEN "invalid algorithm"
    ELSE IF token.sig # "ok" THEN "invalid signature"
    ELSE IF ~ignoreExpiration /\ clock >= token.exp THEN "jwt expired"
    ELSE "ok"

\* variant: the expiry of the token is never looked at
verify_noExpiry(token, algorithms, jwtid, ignoreExpiration, clock) ==
    IF token.form # "jwt" THEN "jwt malformed"
    ELSE IF token.alg \notin algorithms THEN "invalid algorithm"
    ELSE IF token.sig # "ok" THEN "invalid signature"
    ELSE IF jwtid # NoJwtidOption /\ token.jti # jwtid THEN "jwt jwtid invalid"
    ELSE "ok"

verify(token, algorithms, jwtid, ignoreExpiration, clock) ==
    IF token.form # "jwt" THEN "jwt malformed"
    ELSE IF token.alg \notin algorithms THEN "invalid algorithm"
    ELSE IF token.sig # "ok" THEN "invalid signature"
    ELSE IF ~ignoreExpiration /\ clock >= token.exp THEN "jwt expired"
    ELSE IF jwtid # NoJwtidOption /\ token.jti # jwtid THEN "jwt jwtid invalid"
    ELSE "ok"

\* jwtPayloadSchema.parse(rawPayload)
jwtPayloadSchema(p) ==
    /\ p.iat \in Nat /\ p.exp \in Nat
    /\ p.jti \in Nat \ {NoJti}
    /\ p.userId \in Users
    /\ p.tokenType \in {"access", "refresh"}

\* refreshRequestBodySchema.parse(req.body): body.token must be a string
refreshRequestBodySchema(body) == body.form # "absent"

\* ---------------------------------------------------------------- deny-list
\* redis maps each key ever set to [ts: the stored timestamp, ex: the time at
\* which Redis drops the key]; a key is in Redis until its expiry time
Live(j, t) == j \in DOMAIN redis /\ t < redis[j].ex

\* variant: the deny-list is never consulted
isTokenRevoked_never(payload, t) == 0

\* redis.exists(`revoked-jwt:${jti}`)
isTokenRevoked(payload, t) == IF Live(payload.jti, t) THEN 1 ELSE 0

\* the reply of SET ... NX: 1 for "OK", 0 for null (the key was there)
setReply(payload, t) == IF Live(payload.jti, t) THEN 0 ELSE 1

\* variant: SET without NX, an existing record is written over
invalidateToken_overwrite(payload, t) ==
    [k \in DOMAIN redis \cup {payload.jti} |->
        IF k = payload.jti
        THEN [ts |-> t, ex |-> t + (payload.exp + Margin)]
        ELSE redis[k]]

\* variant: the record lives until the presented token's expiry plus the
\* margin (a time-to-live of exp - now + 60)
invalidateToken_remaining(payload, t) ==
    IF Live(payload.jti, t) THEN redis
    ELSE [k \in DOMAIN redis \cup {payload.jti} |->
             IF k = payload.jti
             THEN [ts |-> t, ex |-> payload.exp + Margin]
             ELSE redis[k]]

\* redis.set(`revoked-jwt:${jti}`, timestamp, 'EX', exp + 60, 'NX')
invalidateToken(payload, t) ==
    IF Live(payload.jti, t) THEN redis
    ELSE [k \in DOMAIN redis \cup {payload.jti} |->
             IF k = payload.jti
             THEN [ts |-> t, ex |-> t + (payload.exp + Margin)]
             ELSE redis[k]]

\* ---------------------------------------------------------------- requests
\* the promise of a Redis command
NoReply == [state |-> "none", value |-> 0]
Fulfilled(n) == [state |-> "fulfilled", value |-> n]
Rejected == [state |-> "rejected", value |-> 0]

NoResponse == [status |-> 0, detail |-> "", data |-> NoJti]

Unauthorized(detail) == [status |-> 401, detail |-> detail, data |-> NoJti]

MiddlewareDetail == "Missing or invalid Authorization header"
RefreshDetail == "Invalid refresh token"

NoHeader == [scheme |-> "none", token |-> Absent]

Bearer(t) == [scheme |-> "Bearer", token |-> t]

\* A request: the Express req/res pair and what the handlers have stored on
\* it.  pc      where the request is ("idle": the slot is free)
\*      at      the clock when it arrived
\*      late    whether, when it arrived, a refresh presenting the header's
\*              pairing had returned 200, and the token type with which a
\*              logout of that pairing had returned 204
\*      exists  the reply to the middleware's EXISTS
\*      set     the reply to the handler's SET NX
\*      reason  the message logged with a rejection
NotLate == [refreshed |-> FALSE, loggedOut |-> "none"]

IdleRequest ==
    [pc |-> "idle", route |-> "GET", hdr |-> NoHeader, body |-> Absent,
     at |-> 0, late |-> NotLate, refreshTokenIsAllowed |-> FALSE,
     exists |-> NoReply, set |-> NoReply,
     jwtPayload |-> Absent, currentUser |-> NoUser,
     res |-> NoResponse, reason |-> ""]

Init ==
    /\ now = StartTime
    /\ pairs = <<>>
    /\ redis = <<>>
    /\ users = Users
    /\ req = [r \in Req |-> IdleRequest]

\* A request at "replace_finally" is between `res.json` and the `finally`
\* block of replace: the same synchronous segment, nothing else runs.  A
\* request at "done" has sent its response; its slot is released before the
\* model goes on.
Quiet == \A r \in Req : req[r].pc \notin {"replace_finally", "done"}

Tick ==
    /\ Quiet
    /\ now < StartTime + MaxTime
    /\ now' = now + 1
    /\ UNCHANGED <<pairs, redis, users, req>>

\* ------------------------------------------------------------------- login
\* variant: a login empties the deny-list
store_clearsDenyList(u, ok, cap) ==
    /\ Quiet
    /\ IF ok /\ u \in users
       THEN /\ Len(pairs) < cap
            /\ pairs' = Append(pairs, NewPair(u, now, NoJti))
            /\ redis' = <<>>
       ELSE pairs' = pairs /\ redis' = redis
    /\ UNCHANGED <<now, users, req>>

\* variant: a login revokes the pairings issued to the user before
store_revokesPrevious(u, ok, cap) ==
    /\ Quiet
    /\ IF ok /\ u \in users
       THEN /\ Len(pairs) < cap
            /\ pairs' = Append(pairs, NewPair(u, now, NoJti))
            /\ redis' = [k \in DOMAIN redis \cup {j \in Issued : pairs[j].userId = u} |->
                            IF k \in DOMAIN redis THEN redis[k]
                            ELSE [ts |-> now, ex |-> now + (now + Margin)]]
       ELSE pairs' = pairs /\ redis' = redis
    /\ UNCHANGED <<now, users, req>>

\* POST /access-tokens: store.  `ok` says whether loginName and password match
\* a stored credential of user u (credentials are deleted with their user);
\* a failed login answers 401 and changes nothing.  `cap` bounds the number of
\* pairs of a behaviour.
store(u, ok, cap) ==
    /\ Quiet
    /\ IF ok /\ u \in users
       THEN /\ Len(pairs) < cap
            /\ pairs' = Append(pairs, NewPair(u, now, NoJti))
       ELSE pairs' = pairs
    /\ UNCHANGED <<now, redis, users, req>>

\* ------------------------------------------------------------ the middleware
Refreshed(j) == \E k \in Issued : pairs[k].parent = j

Lateness(j) ==
    [refreshed |-> Refreshed(j),
     loggedOut |-> IF j \in Issued THEN pairs[j].loggedOut ELSE "none"]

\* variant: every route opts in
allowRefreshToken_all(route) == TRUE

\* allowRefreshToken is registered on PUT and DELETE /access-tokens only
allowRefreshToken(route) == route \in {"PUT", "DELETE"}

\* variant: the caught error's message is sent as the detail
Reject_leaky(q, reason) ==
    [q EXCEPT !.pc = "done", !.res = Unauthorized(reason), !.reason = reason]

\* the catch block of jwtAuthenticatedUser
Reject(q, reason) ==
    [q EXCEPT !.pc = "done", !.res = Unauthorized(MiddlewareDetail),
              !.reason = reason]

\* the request as Express hands it to the first middleware
Arrive(route, hdr, t) ==
    [IdleRequest EXCEPT
        !.route = route, !.hdr = hdr, !.at = t,
        !.late = Lateness(hdr.token.jti),
        !.refreshTokenIsAllowed = allowRefreshToken(route)]

\* variant: the deny-list is asked before the expiry is looked at, and a
\* revoked token is reported as revoked whether expired or not
mwVerify_storeFirst(q, t, up) ==
    LET token == q.hdr.token
        v == verify(token, DefaultAlgorithms, NoJwtidOption, TRUE, t)
    IN  IF q.hdr.scheme # "Bearer" \/ token.form = "absent"
        THEN Reject(q, "Missing or invalid Authorization header")
        ELSE IF v # "ok" THEN Reject(q, v)
        ELSE IF ~jwtPayloadSchema(token) THEN Reject(q, "ZodError")
        ELSE IF up /\ isTokenRevoked(token, t) # 0
        THEN Reject([q EXCEPT !.exists = Fulfilled(1)], "Token has been revoked")
        ELSE IF t >= token.exp THEN Reject(q, "jwt expired")
        ELSE [q EXCEPT !.pc = "mw_revoked",
                       !.exists = IF up THEN Fulfilled(0) ELSE Rejected]

\* jwtAuthenticatedUser up to `await isTokenRevoked(payload)`; `up`: Redis
\* takes the command
mwVerify(q, t, up) ==
    LET token == q.hdr.token
        v == verify(token, DefaultAlgorithms, NoJwtidOption, FALSE, t)
    IN  IF q.hdr.scheme # "Bearer" \/ token.form = "absent"
        THEN Reject(q, "Missing or invalid Authorization header")
        ELSE IF v # "ok" THEN Reject(q, v)
        ELSE IF ~jwtPayloadSchema(token) THEN Reject(q, "ZodError")
        ELSE [q EXCEPT !.pc = "mw_revoked",
                       !.exists = IF up THEN Fulfilled(isTokenRevoked(token, t))
                                  ELSE Rejected]

\* variant: a failed EXISTS is taken for "not revoked"
mwCheck_failOpen(q) ==
    IF q.exists.state = "fulfilled" /\ q.exists.value # 0
    THEN Reject(q, "Token has been revoked")
    ELSE IF q.hdr.token.tokenType = "refresh" /\ ~q.refreshTokenIsAllowed
    THEN Reject(q, "Invalid token type")
    ELSE [q EXCEPT !.pc = "mw_user"]

\* ... from the reply of Redis to `await db.query.users.findFirst(...)`
mwCheck(q) ==
    IF q.exists.state = "rejected" THEN Reject(q, "Redis error")
    ELSE IF q.exists.value # 0 THEN Reject(q, "Token has been revoked")
    ELSE IF q.hdr.token.tokenType = "refresh" /\ ~q.refreshTokenIsAllowed
    THEN Reject(q, "Invalid token type")
    ELSE [q EXCEPT !.pc = "mw_user"]

\* variant: the claims are attached without the user having been found
mwAttach_noLookup(q) ==
    [q EXCEPT !.pc = "next", !.currentUser = q.hdr.token.userId,
              !.jwtPayload = q.hdr.token]

\* variant: the claims are attached before the user is looked up, and a
\* missing user is answered with the 401 all the same
mwAttach_both(q) ==
    IF q.hdr.token.userId \notin users
    THEN [Reject(q, "Unable to get User") EXCEPT !.jwtPayload = q.hdr.token]
    ELSE [q EXCEPT !.pc = "next", !.currentUser = q.hdr.token.userId,
                   !.jwtPayload = q.hdr.token]

\* ... from the reply of the database to next()
mwAttach(q) ==
    IF q.hdr.token.userId \notin users THEN Reject(q, "Unable to get User")
    ELSE [q EXCEPT !.pc = "next", !.currentUser = q.hdr.token.userId,
                   !.jwtPayload = q.hdr.token]

\* ------------------------------------------------------------- the handlers
\* controller.index of the protected resource
index(q) ==
    [q EXCEPT !.pc = "done",
              !.res = [status |-> 200, detail |-> "", data |-> NoJti]]

\* variant: the types of the two tokens are not compared
replaceTry_noTypeCheck(q, t, jwtid) ==
    LET primary == q.jwtPayload
        token == q.body
        v == verify(token, {JWTalgorithm}, primary.jti, TRUE, t)
        fail(reason) == [q EXCEPT !.pc = "replace_finally",
                                  !.res = Unauthorized(RefreshDetail),
                                  !.reason = reason]
    IN  IF ~refreshRequestBodySchema(token) THEN fail("ZodError")
        ELSE IF v # "ok" THEN fail(v)
        ELSE IF token.userId # primary.userId THEN fail("Token pair mismatch: userId")
        ELSE [q EXCEPT !.pc = "replace_finally",
                       !.res = [status |-> 200, detail |-> "", data |-> jwtid]]

\* variant: the comparison of the two token types is inverted
replaceTry_typeInverted(q, t, jwtid) ==
    LET primary == q.jwtPayload
        token == q.body
        v == verify(token, {JWTalgorithm}, primary.jti, TRUE, t)
        fail(reason) == [q EXCEPT !.pc = "replace_finally",
                                  !.res = Unauthorized(RefreshDetail),
                                  !.reason = reason]
    IN  IF ~refreshRequestBodySchema(token) THEN fail("ZodError")
        ELSE IF v # "ok" THEN fail(v)
        ELSE IF token.userId # primary.userId THEN fail("Token pair mismatch: userId")
        ELSE IF token.tokenType # primary.tokenType
        THEN fail("Token pair mismatch: tokenType")
        ELSE [q EXCEPT !.pc = "replace_finally",
                       !.res = [status |-> 200, detail |-> "", data |-> jwtid]]

\* the try and catch blocks of replace, run with req.jwtPayload set by the
\* middleware; `jwtid` is the identifier generateTokens would draw
replaceTry(q, t, jwtid) ==
    LET primary == q.jwtPayload
        token == q.body
        v == verify(token, {JWTalgorithm}, primary.jti, TRUE, t)
        fail(reason) == [q EXCEPT !.pc = "replace_finally",
                                  !.res = Unauthorized(RefreshDetail),
                                  !.reason = reason]
    IN  IF ~refreshRequestBodySchema(token) THEN fail("ZodError")
        ELSE IF v # "ok" THEN fail(v)
        ELSE IF token.userId # primary.userId THEN fail("Token pair mismatch: userId")
        ELSE IF token.tokenType = primary.tokenType
        THEN fail("Token pair mismatch: tokenType")
        ELSE [q EXCEPT !.pc = "replace_finally",
                       !.res = [status |-> 200, detail |-> "", data |-> jwtid]]

\* the response of replace to a request without req.jwtPayload
MissingJwtPayload ==
    [status |-> 500,
     detail |-> "Missing jwtPayload. Check middleware registration.",
     data |-> NoJti]

\* variant: replace without its guard on req.jwtPayload
replace_noGuard(q, t, jwtid) == replaceTry(q, t, jwtid)

\* replace from its first statement: the guard returns before the try, so
\* neither the issuing nor the finally block runs
replace(q, t, jwtid) ==
    IF q.jwtPayload = Absent
    THEN [q EXCEPT !.pc = "done", !.res = MissingJwtPayload,
                   !.reason = "Missing jwtPayload"]
    ELSE replaceTry(q, t, jwtid)

\* destroy without req.jwtPayload: jwtPayloadSchema.parse(undefined) throws,
\* next(error), and the errorHandler answers a ZodError with 400
destroyInvalid(q) ==
    [q EXCEPT !.pc = "done",
              !.res = [status |-> 400, detail |-> "Validation Error",
                       data |-> NoJti],
              !.reason = "ZodError"]

\* destroy up to `await invalidateToken(payload)`
destroyTry(q, t, up) ==
    [q EXCEPT !.pc = "destroy_wait",
              !.set = IF up THEN Fulfilled(setReply(q.jwtPayload, t)) ELSE Rejected]

\* variant: the failure of the SET is swallowed
destroyEnd_swallow(q) ==
    [q EXCEPT !.pc = "done",
              !.res = [status |-> 204, detail |-> "", data |-> NoJti]]

\* variant: a SET NX that found the key is reported as an error
destroyEnd_strict(q) ==
    [q EXCEPT !.pc = "done",
              !.res = IF q.set.state = "rejected" \/ q.set.value = 0
                      THEN [status |-> 500, detail |-> "Redis error", data |-> NoJti]
                      ELSE [status |-> 204, detail |-> "", data |-> NoJti]]

\* destroy after `await invalidateToken(payload)`: 204, or next(error) and the
\* errorHandler's 500
destroyEnd(q) ==
    [q EXCEPT !.pc = "done",
              !.res = IF q.set.state = "rejected"
                      THEN [status |-> 500, detail |-> "Redis error", data |-> NoJti]
                      ELSE [status |-> 204, detail |-> "", data |-> NoJti]]

\* the route's handler, up to its first `await`
handler(q, t, up, jwtid) ==
    IF q.route = "GET" THEN index(q)
    ELSE IF q.route = "PUT" THEN replaceTry(q, t, jwtid)
    ELSE destroyTry(q, t, up)

\* The body of a request is chosen when a handler first reads it: nothing
\* looks at it before, and a request the middleware rejects ends with its body
\* unread.
Reveal(q, body) == IF q.pc = "next" THEN [q EXCEPT !.body = body] ELSE q

\* ----------------------------------------------------------------- actions
\* a request arrives: allowRefreshToken where registered, then
\* jwtAuthenticatedUser up to its first `await`
jwtAuthenticatedUser(r, route, hdr, up) ==
    /\ Quiet
    /\ req[r].pc = "idle"
    /\ req' = [req EXCEPT ![r] = mwVerify(Arrive(route, hdr, now), now, up)]
    /\ UNCHANGED <<now, pairs, redis, users>>

mwRevoked(r) ==
    /\ Quiet
    /\ req[r].pc = "mw_revoked"
    /\ req' = [req EXCEPT ![r] = mwCheck(req[r])]
    /\ UNCHANGED <<now, pairs, redis, users>>

\* the database replies; on success next() runs the handler to its first
\* `await` (replace: through `res.json`)
mwUser(r, body, up, cap) ==
    /\ Quiet
    /\ req[r].pc = "mw_user"
    /\ LET a == Reveal(mwAttach(req[r]), body)
           h == IF a.pc = "next" THEN handler(a, now, up, Len(pairs) + 1) ELSE a
       IN  /\ req' = [req EXCEPT ![r] = h]
           /\ IF h.res.status = 200 /\ h.route = "PUT"
              THEN /\ Len(pairs) < cap
                   /\ pairs' = Append(pairs, NewPair(h.jwtPayload.userId, now,
                                                     h.jwtPayload.jti))
              ELSE pairs' = pairs
           /\ IF h.pc = "destroy_wait" /\ up
              THEN redis' = invalidateToken(h.jwtPayload, now)
              ELSE redis' = redis
    /\ UNCHANGED <<now, users>>

\* variant: after a successful refresh the pair just returned is revoked
\* along with the one presented
replaceFinally_revokesNew(r, up) ==
    /\ req[r].pc = "replace_finally"
    /\ LET old == req[r].jwtPayload
           new == IF req[r].res.status = 200
                  THEN PairOf(req[r].res.data).accessToken ELSE old
       IN  /\ req' = [req EXCEPT ![r].pc = "done",
                        ![r].set = IF up THEN Fulfilled(setReply(old, now))
                                   ELSE Rejected]
           /\ redis' = IF up
                       THEN [k \in DOMAIN redis \cup {old.jti, new.jti} |->
                               IF k \in DOMAIN redis THEN redis[k]
                               ELSE [ts |-> now, ex |-> now + (old.exp + Margin)]]
                       ELSE redis
    /\ UNCHANGED <<now, pairs, users>>

\* variant: the pairing of the body token is revoked along with the
\* primary's
replaceFinally_revokesBoth(r, up) ==
    /\ req[r].pc = "replace_finally"
    /\ LET old == req[r].jwtPayload
           other == IF req[r].body.jti \in Issued THEN req[r].body ELSE old
       IN  /\ req' = [req EXCEPT ![r].pc = "done",
                        ![r].set = IF up THEN Fulfilled(setReply(old, now))
                                   ELSE Rejected]
           /\ redis' = IF up
                       THEN [k \in DOMAIN redis \cup {old.jti, other.jti} |->
                               IF k \in DOMAIN redis THEN redis[k]
                               ELSE [ts |-> now, ex |-> now + (old.exp + Margin)]]
                       ELSE redis
    /\ UNCHANGED <<now, pairs, users>>

\* variant: the pairing is revoked after a successful refresh only
replaceFinally_onSuccess(r, up) ==
    /\ req[r].pc = "replace_finally"
    /\ LET sent == up /\ req[r].res.status = 200
       IN  /\ req' = [req EXCEPT ![r].pc = "done",
                        ![r].set = IF sent
                                   THEN Fulfilled(setReply(req[r].jwtPayload, now))
                                   ELSE IF up THEN Fulfilled(0) ELSE Rejected]
           /\ redis' = IF sent THEN invalidateToken(req[r].jwtPayload, now)
                       ELSE redis
    /\ UNCHANGED <<now, pairs, users>>

\* the finally block of replace: `await invalidateToken(req.jwtPayload)`;
\* a failed command rejects the handler's promise after the response was sent
replaceFinally(r, up) ==
    /\ req[r].pc = "replace_finally"
    /\ req' = [req EXCEPT ![r].pc = "done",
                 ![r].set = IF up THEN Fulfilled(setReply(req[r].jwtPayload, now))
                            ELSE Rejected]
    /\ redis' = IF up THEN invalidateToken(req[r].jwtPayload, now) ELSE redis
    /\ UNCHANGED <<now, pairs, users>>

destroyDone(r) ==
    /\ Quiet
    /\ req[r].pc = "destroy_wait"
    /\ LET q == destroyEnd(req[r])
       IN  /\ req' = [req EXCEPT ![r] = q]
           /\ pairs' = IF q.res.status = 204
                          /\ pairs[q.jwtPayload.jti].loggedOut = "none"
                       THEN [pairs EXCEPT ![q.jwtPayload.jti].loggedOut =
                                             q.jwtPayload.tokenType]
                       ELSE pairs
    /\ UNCHANGED <<now, redis, users>>

\* the response has been sent and the handler has returned
finish(r) ==
    /\ req[r].pc = "done"
    /\ req' = [req EXCEPT ![r] = IdleRequest]
    /\ UNCHANGED <<now, pairs, redis, users>>

\* DELETE /users/:id
deleteUser(u) ==
    /\ Quiet
    /\ u \in users
    /\ users' = users \ {u}
    /\ UNCHANGED <<now, pairs, redis, req>>

\* a request on the access-token router registered without the middleware:
\* nothing sets req.jwtPayload or req.refreshTokenIsAllowed before the handler
Unguarded(route, hdr, body, t) ==
    [IdleRequest EXCEPT !.route = route, !.hdr = hdr, !.body = body, !.at = t]

\* PUT /api/access-tokens/:id on that router
replaceUnguarded(r, hdr, body) ==
    /\ Quiet
    /\ req[r].pc = "idle"
    /\ LET h == replace(Unguarded("PUT", hdr, body, now), now, Len(pairs) + 1)
       IN  /\ req' = [req EXCEPT ![r] = h]
           /\ pairs' = IF h.res.status = 200
                       THEN Append(pairs, NewPair(h.body.userId, now, NoJti))
                       ELSE pairs
    /\ UNCHANGED <<now, redis, users>>

\* DELETE /api/access-tokens/:id on that router
destroyUnguarded(r, hdr) ==
    /\ Quiet
    /\ req[r].pc = "idle"
    /\ req' = [req EXCEPT ![r] = destroyInvalid(Unguarded("DELETE", hdr, Absent, now))]
    /\ UNCHANGED <<now, pairs, redis, users>>

\* ------------------------------------------------------- what clients send
\* a token whose payload was altered or that was signed with another secret
Tampered(t) == [t EXCEPT !.sig = "bad"]

\* Spec: one request at a time, every kind of input, Redis may fail.
TokenInputs ==
    GenuineTokens \cup {Garbage} \cup {Tampered(t) : t \in GenuineTokens}

HeaderInputs ==
    {Bearer(t) : t \in TokenInputs \cup {Absent}}
        \cup {[scheme |-> "Basic", token |-> Garbage], NoHeader}

BodyInputs(route) ==
    IF route = "PUT" THEN TokenInputs \cup {Absent} ELSE {Absent}

Sequential == {1}

Next ==
    \/ Tick
    \/ \E u \in Users, ok \in BOOLEAN : store(u, ok, MaxPairs)
    \/ \E r \in Sequential, route \in Routes, up \in BOOLEAN :
         \E hdr \in HeaderInputs : jwtAuthenticatedUser(r, route, hdr, up)
    \/ \E r \in Req : mwRevoked(r)
    \/ \E r \in Req, up \in BOOLEAN :
         \E body \in BodyInputs(req[r].route) : mwUser(r, body, up, MaxPairs)
    \/ \E r \in Req, up \in BOOLEAN : replaceFinally(r, up)
    \/ \E r \in Req : destroyDone(r)
    \/ \E r \in Req : finish(r)
    \/ deleteUser("u2")

Spec == Init /\ [][Next]_vars

\* SpecRace: one user logs in once and the clients holding that pair send
\* well-formed requests concurrently; Redis and the database answer every
\* command.
RaceTokens ==
    IF pairs = <<>> THEN {}
    ELSE {PairOf(1).accessToken, PairOf(1).refreshToken}

RaceBodyInputs(route, t) ==
    IF route = "PUT" THEN {Partner(t), t} ELSE {Absent}

NextRace ==
    \/ Tick
    \/ store("u1", TRUE, 1)
    \/ \E r \in Req, route \in Routes, t \in RaceTokens :
         jwtAuthenticatedUser(r, route, Bearer(t), TRUE)
    \/ \E r \in Req : mwRevoked(r)
    \/ \E r \in Req :
         \E body \in RaceBodyInputs(req[r].route, req[r].hdr.token) :
            mwUser(r, body, TRUE, MaxRacePairs)
    \/ \E r \in Req : replaceFinally(r, TRUE)
    \/ \E r \in Req : destroyDone(r)
    \/ \E r \in Req : finish(r)

SpecRace == Init /\ [][NextRace]_vars

\* SpecTime: one user, the tokens of the pairs issued so far presented with
\* their partner over the whole life of a refresh token and beyond; Redis
\* and the database answer every command.
Elapse ==
    /\ Quiet
    /\ now < StartTime + Horizon
    /\ now' = now + 1
    /\ UNCHANGED <<pairs, redis, users, req>>

TimeBodyInputs(route, t) == IF route = "PUT" THEN {Partner(t)} ELSE {Absent}

NextTime ==
    \/ Elapse
    \/ store("u1", TRUE, MaxPairs)
    \/ \E r \in Sequential, route \in Routes, t \in GenuineTokens :
         jwtAuthenticatedUser(r, route, Bearer(t), TRUE)
    \/ \E r \in Req : mwRevoked(r)
    \/ \E r \in Req :
         \E body \in TimeBodyInputs(req[r].route, req[r].hdr.token) :
            mwUser(r, body, TRUE, MaxPairs)
    \/ \E r \in Req : replaceFinally(r, TRUE)
    \/ \E r \in Req : destroyDone(r)
    \/ \E r \in Req : finish(r)

SpecTime == Init /\ [][NextTime]_vars

\* SpecLive: Spec with every awaited reply arriving.  Node resumes a
\* continuation once its promise settles, and ioredis and the database
\* driver settle every command they were given, with a reply or an error.
SpecLive ==
    /\ Spec
    /\ \A r \in Sequential :
         /\ WF_vars(mwRevoked(r))
         /\ WF_vars(\E up \in BOOLEAN :
                      \E body \in BodyInputs(req[r].route) :
                         mwUser(r, body, up, MaxPairs))
         /\ WF_vars(\E up \in BOOLEAN : replaceFinally(r, up))
         /\ WF_vars(destroyDone(r))

\* SpecAlg: one user; clients also hold tokens signed with JWT.secret under
\* another HMAC algorithm (issued while JWT_ALGORITHM had another value, or by
\* another holder of the secret) and unsigned tokens (alg "none").
Resigned(t) == [t EXCEPT !.alg = "HS384"]

Unsigned(t) == [t EXCEPT !.alg = "none", !.sig = "none"]

AlgTokens ==
    GenuineTokens \cup {Resigned(t) : t \in GenuineTokens}
        \cup {Unsigned(t) : t \in GenuineTokens}

AlgBodyInputs(route, t) ==
    IF route = "PUT" THEN {Partner(t), Resigned(Partner(t)), Unsigned(Partner(t))}
    ELSE {Absent}

NextAlg ==
    \/ Tick
    \/ store("u1", TRUE, MaxPairs)
    \/ \E r \in Sequential, route \in Routes, t \in AlgTokens :
         jwtAuthenticatedUser(r, route, Bearer(t), TRUE)
    \/ \E r \in Req : mwRevoked(r)
    \/ \E r \in Req :
         \E body \in AlgBodyInputs(req[r].route, req[r].hdr.token) :
            mwUser(r, body, TRUE, MaxPairs)
    \/ \E r \in Req : replaceFinally(r, TRUE)
    \/ \E r \in Req : destroyDone(r)
    \/ \E r \in Req : finish(r)

SpecAlg == Init /\ [][NextAlg]_vars

\* SpecUnguarded: the access-token router as access-token/router.ts registers
\* it, replace and destroy without jwtAuthenticatedUser; users log in and
\* clients send what they would send to the guarded routes.
NextUnguarded ==
    \/ Tick
    \/ \E u \in Users, ok \in BOOLEAN : store(u, ok, MaxPairs)
    \/ \E r \in Req, hdr \in HeaderInputs :
         \E body \in BodyInputs("PUT") : replaceUnguarded(r, hdr, body)
    \/ \E r \in Req, hdr \in HeaderInputs : destroyUnguarded(r, hdr)
    \/ \E r \in Req : finish(r)

SpecUnguarded == Init /\ [][NextUnguarded]_vars

\* ------------------------------------------------------------------ claims
\* what a request presented
Presents(q) == q.pc # "idle" /\ q.hdr.scheme = "Bearer"

GenuineHeader(q) == Presents(q) /\ q.hdr.token \in GenuineTokens

\* next() was called: the middleware attached the claims and the handler ran
Accepted(q) == q.jwtPayload # Absent

\* the middleware answered 401 and called no handler
RejectedByMiddleware(q) ==
    /\ q.pc = "done"
    /\ ~Accepted(q)
    /\ q.res = Unauthorized(MiddlewareDetail)

\* the request is at, or will without any choice reach, that rejection
NeverAccepted(q) ==
    /\ ~Accepted(q)
    /\ q.pc \in {"mw_revoked", "done"}
    /\ q.pc = "done" => RejectedByMiddleware(q)

\* the pairs minted by refreshes that presented pairing j
MintedFrom(j) == {k \in Issued : pairs[k].parent = j}

\* the request returned the new pair whose pairing identifier is res.data
ReturnsNewPair(q) ==
    /\ q.res.status = 200
    /\ q.res.data \in Issued
    /\ q.res.data # q.jwtPayload.jti
    /\ pairs[q.res.data].parent = q.jwtPayload.jti
    /\ pairs[q.res.data].userId = q.jwtPayload.userId

\* C1: of the refresh requests presenting valid tokens of one pairing, in any
\* interleaving, at most one returns a new pair: no pairing is the parent of
\* two pairs.
C1_AtMostOnePairPerPairing ==
    \A j \in Issued : Cardinality(MintedFrom(j)) <= 1

\* C2: a request that arrives after a refresh of its header token's pairing
\* has returned 200 is never accepted: the middleware answers it 401, on every
\* route.
C2_OldPairRejectedAfterRefresh ==
    \A r \in Req :
        (Presents(req[r]) /\ req[r].late.refreshed) => NeverAccepted(req[r])

\* C3: a refresh request with a genuine unexpired token in the header, whose
\* pairing was not in the deny-list when the middleware asked, fails only if
\* the user is gone or the body is not the other token of the pair; with the
\* other token in the body it returns 200 and a new pair, whichever of the
\* two tokens is in the header.
C3_RefreshSucceedsInBothOrders ==
    \A r \in Req :
        LET q == req[r]
        IN  (/\ q.route = "PUT"
             /\ GenuineHeader(q)
             /\ q.at < q.hdr.token.exp
             /\ q.exists = Fulfilled(0)
             /\ q.pc \in {"replace_finally", "done"})
            => \/ q.reason = "Unable to get User" /\ ~Accepted(q)
               \/ Accepted(q) /\ q.body # Partner(q.hdr.token)
                    /\ q.res = Unauthorized(RefreshDetail)
               \/ Accepted(q) /\ q.body = Partner(q.hdr.token)
                    /\ ReturnsNewPair(q)

C3_RefreshHeaderAccessBody ==
    \E r \in Req :
        /\ req[r].pc = "done" /\ req[r].route = "PUT"
        /\ req[r].jwtPayload \in GenuineTokens
        /\ req[r].jwtPayload.tokenType = "refresh"
        /\ req[r].body = Partner(req[r].jwtPayload)
        /\ req[r].at < req[r].body.exp
        /\ ReturnsNewPair(req[r])

\* C4: a refresh request whose handler ran has, when it ends, sent the
\* revocation of the primary token's pairing to Redis, whether it answered
\* 200 or 401; when Redis took the command the pairing is in the deny-list.
C4_RefreshAlwaysRevokes ==
    \A r \in Req :
        (req[r].pc = "done" /\ req[r].route = "PUT" /\ Accepted(req[r]))
            => /\ req[r].set # NoReply
               /\ req[r].res.status \in {200, 401}
               /\ req[r].set.state = "fulfilled"
                    => Live(req[r].jwtPayload.jti, now)

C4_RejectedRefreshRevoked ==
    \E r \in Req :
        /\ req[r].pc = "done" /\ req[r].route = "PUT"
        /\ req[r].res = Unauthorized(RefreshDetail)
        /\ req[r].reason = "Token pair mismatch: tokenType"
        /\ req[r].set = Fulfilled(1)
        /\ Live(req[r].jwtPayload.jti, now)

\* C5 as stated: a refresh request with the expired access token of a
\* pairing that is not revoked in the header (its user still there) returns
\* a new pair.
C5_ExpiredHeaderRefreshes ==
    \A r \in Req :
        LET q == req[r]
        IN  (/\ q.pc = "done" /\ q.route = "PUT"
             /\ GenuineHeader(q)
             /\ q.hdr.token.tokenType = "access"
             /\ q.at >= q.hdr.token.exp
             /\ ~Live(q.hdr.token.jti, q.at)
             /\ q.hdr.token.userId \in users)
            => ReturnsNewPair(q)

\* C5: a request with an expired genuine token in the header is answered 401
\* by the middleware before any body is read; a refresh with the valid
\* refresh token in the header and the expired access token of the same
\* pairing in the body returns a new pair with another pairing identifier.
C5_ExpiredOnlyInBody ==
    \A r \in Req :
        LET q == req[r]
        IN  /\ (GenuineHeader(q) /\ q.at >= q.hdr.token.exp)
                => /\ RejectedByMiddleware(q)
                   /\ q.reason = "jwt expired"
                   /\ q.body = Absent
            /\ (/\ q.pc \in {"replace_finally", "done"} /\ q.route = "PUT"
                /\ Accepted(q)
                /\ q.body = Partner(q.jwtPayload)
                /\ q.at >= q.body.exp)
                => /\ q.jwtPayload.tokenType = "refresh"
                   /\ ReturnsNewPair(q)

C5_RefreshWithExpiredBody ==
    \E r \in Req :
        /\ req[r].pc = "done" /\ req[r].route = "PUT"
        /\ req[r].jwtPayload \in GenuineTokens
        /\ req[r].body = Partner(req[r].jwtPayload)
        /\ req[r].at >= req[r].body.exp
        /\ ReturnsNewPair(req[r])

\* C6: a request that arrives after a logout of its header token's pairing
\* has returned 204 is never accepted, on any route and whichever of the two
\* tokens the logout presented.
C6_PairingRejectedAfterLogout ==
    \A r \in Req :
        (Presents(req[r]) /\ req[r].late.loggedOut # "none")
            => NeverAccepted(req[r])

C6_OtherTokenRejected ==
    \E r \in Req :
        /\ GenuineHeader(req[r])
        /\ req[r].late.loggedOut = "access"
        /\ req[r].hdr.token.tokenType = "refresh"
        /\ req[r].route = "PUT"
        /\ req[r].at < req[r].hdr.token.exp
        /\ RejectedByMiddleware(req[r])
        /\ req[r].reason = "Token has been revoked"

\* C7: a genuine, unexpired refresh token whose pairing is not revoked is
\* rejected for its type on the protected route and passes the type check on
\* the refresh and logout routes; an access token is never rejected for its
\* type.
ValidUnrevoked(q) ==
    /\ GenuineHeader(q)
    /\ q.at < q.hdr.token.exp
    /\ q.exists = Fulfilled(0)
    /\ q.pc # "mw_revoked"

C7_TypeCheckByRoute ==
    \A r \in Req :
        LET q == req[r]
        IN  /\ (Presents(q) /\ q.hdr.token.tokenType # "refresh")
                => q.reason # "Invalid token type"
            /\ (ValidUnrevoked(q) /\ q.hdr.token.tokenType = "refresh")
                => IF q.route \in {"PUT", "DELETE"}
                   THEN /\ q.reason # "Invalid token type"
                        /\ Accepted(q) \/ q.pc = "mw_user"
                             \/ q.reason = "Unable to get User"
                   ELSE /\ RejectedByMiddleware(q)
                        /\ q.reason = "Invalid token type"

C7_RefreshTokenOnProtectedRoute ==
    \E r \in Req :
        /\ ValidUnrevoked(req[r])
        /\ req[r].hdr.token.tokenType = "refresh"
        /\ req[r].route = "GET"
        /\ req[r].reason = "Invalid token type"

\* C8 as stated: a logout request with an unexpired genuine token returns
\* 204 also when a logout of the same pairing has already returned 204.
C8_SecondLogoutSucceeds ==
    \A r \in Req :
        (/\ req[r].pc = "done" /\ req[r].route = "DELETE"
         /\ GenuineHeader(req[r])
         /\ req[r].at < req[r].hdr.token.exp
         /\ req[r].late.loggedOut # "none")
            => req[r].res.status = 204

\* C8: the destroy handler answers 204 whether its SET NX wrote the record or
\* found it there (500 only if Redis failed the command), but a logout that
\* arrives after a logout of the pairing returned 204 never reaches the
\* handler: the middleware answers it 401.
C8_LogoutHandlerIdempotent ==
    \A r \in Req :
        LET q == req[r]
        IN  (q.route = "DELETE" /\ Presents(q))
            => /\ (q.pc = "done" /\ Accepted(q))
                    => /\ q.set # NoReply
                       /\ q.res.status =
                              IF q.set.state = "rejected" THEN 500 ELSE 204
               /\ q.late.loggedOut # "none" => NeverAccepted(q)

C8_LogoutOfRevokedPairing ==
    \E r \in Req :
        /\ req[r].pc = "done" /\ req[r].route = "DELETE"
        /\ Accepted(req[r])
        /\ req[r].set = Fulfilled(0)
        /\ req[r].res.status = 204

\* C9: a request whose EXISTS command failed is never accepted: the
\* middleware answers 401; and every request that the middleware let pass
\* holds the reply "not revoked" to its EXISTS.
C9_FailClosed ==
    \A r \in Req :
        LET q == req[r]
        IN  /\ q.exists.state = "rejected" => NeverAccepted(q)
            /\ (Accepted(q) \/ q.pc = "mw_user") => q.exists = Fulfilled(0)

C9_StoreUnreachable ==
    \E r \in Req :
        /\ req[r].exists = Rejected
        /\ GenuineHeader(req[r])
        /\ req[r].at < req[r].hdr.token.exp
        /\ RejectedByMiddleware(req[r])
        /\ req[r].reason = "Redis error"

\* C10 as stated: every rejected request gets the same response.
C10_OneResponseForAll ==
    \A r \in Req :
        (req[r].pc = "done" /\ req[r].res.status = 401)
            => req[r].res = Unauthorized(MiddlewareDetail)

\* C10: a rejection is a 401 without data whose detail is fixed by the stage
\* that rejected, the middleware or the refresh handler, and says nothing of
\* the reason; the two stages send different details.
C10_ResponseByStage ==
    \A r \in Req :
        LET q == req[r]
        IN  /\ q.res.status = 401 <=> q.reason # ""
            /\ q.res.status = 401
                => q.res = Unauthorized(IF Accepted(q) THEN RefreshDetail
                                        ELSE MiddlewareDetail)
            /\ RefreshDetail # MiddlewareDetail

C10_RefreshHandlerRejection ==
    \E r \in Req :
        /\ req[r].pc = "done"
        /\ req[r].reason = "jwt jwtid invalid"
        /\ req[r].res = Unauthorized(RefreshDetail)

\* C11: a refresh whose revocation write failed has not handed out a new
\* pair: its response is an error.
C11_FailedRevokeIssuesNothing ==
    \A r \in Req :
        (req[r].pc = "done" /\ req[r].route = "PUT" /\ req[r].set = Rejected)
            => /\ req[r].res.status >= 500
               /\ MintedFrom(req[r].jwtPayload.jti) = {}

\* C12: a logout whose revocation write failed is answered 500, never 204
\* and never 401, and is not recorded as a logout of the pairing.
C12_FailedLogoutIs5xx ==
    \A r \in Req :
        (req[r].pc = "done" /\ req[r].route = "DELETE" /\ req[r].set = Rejected)
            => /\ req[r].res.status = 500
               /\ Accepted(req[r])
               /\ ~Live(req[r].jwtPayload.jti, now)
                    => pairs[req[r].jwtPayload.jti].loggedOut = "none"

C12_LogoutWriteFailed ==
    \E r \in Req :
        /\ req[r].pc = "done" /\ req[r].route = "DELETE"
        /\ req[r].exists = Fulfilled(0)
        /\ req[r].set = Rejected
        /\ req[r].res.status = 500
        /\ ~Live(req[r].jwtPayload.jti, now)

\* the refresh handler ran on the request and read its body
RefreshHandled(q) ==
    /\ q.route = "PUT"
    /\ Accepted(q)
    /\ q.pc \in {"replace_finally", "done"}

\* the body is a token of a pair that was issued to another user
OtherSubjectBody(q) ==
    /\ q.body \in GenuineTokens
    /\ q.body.userId # q.jwtPayload.userId

\* C13 as stated: a refresh whose body token comes from another user's pair
\* is rejected with the reason 'Token pair mismatch: userId'.
C13_SubjectMismatchReported ==
    \A r \in Req :
        (RefreshHandled(req[r]) /\ OtherSubjectBody(req[r]))
            => /\ req[r].res = Unauthorized(RefreshDetail)
               /\ req[r].reason = "Token pair mismatch: userId"

\* C13: a refresh whose body token comes from another user's pair is
\* answered 401 without a pair, and the reason recorded is the pairing
\* mismatch found by the verification of the body ('jwt jwtid invalid'); no
\* refresh is ever rejected with the reason 'Token pair mismatch: userId'.
C13_OtherSubjectIsPairingMismatch ==
    \A r \in Req :
        /\ (RefreshHandled(req[r]) /\ OtherSubjectBody(req[r]))
            => /\ req[r].res = Unauthorized(RefreshDetail)
               /\ req[r].reason = "jwt jwtid invalid"
        /\ req[r].reason # "Token pair mismatch: userId"

C13_BodyOfOtherSubject ==
    \E r \in Req :
        /\ req[r].pc = "done"
        /\ RefreshHandled(req[r]) /\ OtherSubjectBody(req[r])
        /\ req[r].at < req[r].body.exp
        /\ req[r].reason = "jwt jwtid invalid"
        /\ Len(pairs) = 2

C15_ExpiredReportedRevoked ==
    \A r \in Req :
        (/\ GenuineHeader(req[r])
         /\ req[r].late.refreshed
         /\ req[r].hdr.token.tokenType = "access"
         /\ req[r].at >= req[r].hdr.token.exp
         /\ req[r].pc = "done")
            => /\ RejectedByMiddleware(req[r])
               /\ req[r].reason = "Token has been revoked"

\* C15: the middleware looks at the expiry before it asks the deny-list: a
\* genuine header token that has expired is rejected with the reason 'jwt
\* expired' and no EXISTS is sent for it; an unexpired token whose pairing
\* the deny-list holds when the middleware asks (as after a refresh whose
\* revocation was stored) is rejected with the reason 'Token has been
\* revoked'.
C15_RevokedOnlyIfUnexpired ==
    \A r \in Req :
        LET q == req[r]
        IN  GenuineHeader(q)
            => /\ q.at >= q.hdr.token.exp
                    => /\ RejectedByMiddleware(q)
                       /\ q.reason = "jwt expired"
                       /\ q.exists = NoReply
               /\ q.exists = Fulfilled(1)
                    => /\ q.at < q.hdr.token.exp
                       /\ NeverAccepted(q)
                       /\ q.pc = "done" => q.reason = "Token has been revoked"

C15_ExpiredOldAccessToken ==
    \E r \in Req :
        /\ GenuineHeader(req[r])
        /\ req[r].late.refreshed
        /\ Live(req[r].hdr.token.jti, req[r].at)
        /\ req[r].hdr.token.tokenType = "access"
        /\ req[r].at >= req[r].hdr.token.exp
        /\ req[r].reason = "jwt expired"

\* C16: the two tokens of every issued pair carry the same pairing
\* identifier and the same user, one is tagged access and the other refresh,
\* and no two issued pairs share a pairing identifier; the pair a refresh
\* returns is identified apart from the pair it retires.
C16_PairWellFormed ==
    /\ \A j \in Issued :
        LET p == PairOf(j)
        IN  /\ p.accessToken.jti = p.refreshToken.jti
            /\ p.accessToken.userId = p.refreshToken.userId
            /\ p.accessToken.userId = pairs[j].userId
            /\ p.accessToken.tokenType = "access"
            /\ p.refreshToken.tokenType = "refresh"
            /\ p.accessToken.exp < p.refreshToken.exp
            /\ \A k \in Issued \ {j} :
                 PairOf(k).accessToken.jti # p.accessToken.jti
    /\ \A r \in Req :
        (req[r].route = "PUT" /\ req[r].res.status = 200)
            => /\ req[r].res.data \in Issued
               /\ req[r].res.data # req[r].jwtPayload.jti

C16_LoginAndRefreshPairs ==
    /\ Len(pairs) = 2
    /\ pairs[1].parent = NoJti
    /\ pairs[2].parent = 1
    /\ \E r \in Req : req[r].pc = "done" /\ req[r].res.data = 2

\* C17: when a refresh has completed with 200, the pairing of the pair it
\* returned is not in the deny-list, and if Redis took the revocation the
\* retiring pairing is; the deny-list holds keys of earlier pairings only.
C17_NewPairNotRevoked ==
    \A r \in Req :
        LET q == req[r]
        IN  (q.pc = "done" /\ q.route = "PUT" /\ q.res.status = 200)
            => /\ q.res.data \in Issued
               /\ q.res.data \notin DOMAIN redis
               /\ q.set.state = "fulfilled" => Live(q.jwtPayload.jti, now)
               /\ DOMAIN redis \subseteq Issued \ {q.res.data}

\* the new access token is accepted on the protected route while the old
\* pairing is in the deny-list
C17_NewAccessTokenAccepted ==
    \E r \in Req :
        /\ req[r].pc = "done" /\ req[r].route = "GET"
        /\ Accepted(req[r])
        /\ req[r].res.status = 200
        /\ req[r].jwtPayload.tokenType = "access"
        /\ pairs[req[r].jwtPayload.jti].parent # NoJti
        /\ Live(pairs[req[r].jwtPayload.jti].parent, now)

\* C18: within a refresh the revocation record of the retiring pairing is
\* written before the new pair is minted and returned: whenever a refresh
\* request holds its 200 response, the retiring pairing is in the deny-list.
C18_RevokeThenReissue ==
    \A r \in Req :
        (req[r].route = "PUT" /\ req[r].res.status = 200)
            => Live(req[r].jwtPayload.jti, now)

C20_TtlIsRemainingLifePlusMargin ==
    \A j \in DOMAIN redis :
        redis[j].ex \in {PairOf(j).accessToken.exp + Margin,
                         PairOf(j).refreshToken.exp + Margin}

\* C21: a token whose header algorithm is not the configured one is rejected
\* wherever it is verified: in the Authorization header the middleware never
\* accepts it, in the body the refresh handler answers 401.
C21_OtherAlgorithmRejected ==
    \A r \in Req :
        LET q == req[r]
        IN  /\ (Presents(q) /\ q.hdr.token.alg # JWTalgorithm)
                => NeverAccepted(q)
            /\ (RefreshHandled(q) /\ q.body.alg # JWTalgorithm)
                => q.res = Unauthorized(RefreshDetail)

\* the half of C21 that holds: the refresh handler rejects a body token of
\* another algorithm
C21_BodyAlgorithmChecked ==
    \A r \in Req :
        (RefreshHandled(req[r]) /\ req[r].body.alg # JWTalgorithm)
            => /\ req[r].res = Unauthorized(RefreshDetail)
               /\ req[r].reason = "invalid algorithm"

\* C22: the middleware calls the handler only for a Bearer token that
\* verified with the expiry enforced when it arrived, whose pairing the
\* deny-list reported absent, whose type the route allows and whose user the
\* database returned; it then attaches that token's claims and that user.  A
\* token whose user is gone is rejected though every other check passed.
C22_AcceptOnlyIfAllChecksPass ==
    \A r \in Req :
        LET q == req[r]
            t == q.hdr.token
        IN  /\ Accepted(q)
                => /\ q.hdr.scheme = "Bearer"
                   /\ verify(t, DefaultAlgorithms, NoJwtidOption, FALSE, q.at) = "ok"
                   /\ jwtPayloadSchema(t)
                   /\ q.exists = Fulfilled(0)
                   /\ t.tokenType = "refresh" => q.refreshTokenIsAllowed
                   /\ q.jwtPayload = t
                   /\ q.currentUser = t.userId
                   /\ q.route # "DELETE" => q.currentUser \in users
                   /\ q.reason # "Unable to get User"
            /\ ~Accepted(q) => q.currentUser = NoUser
            /\ (/\ q.pc = "done" /\ Presents(q) /\ q.route # "DELETE"
                /\ t.userId \notin users)
                => RejectedByMiddleware(q)

C22_SubjectGone ==
    \E r \in Req :
        /\ ValidUnrevoked(req[r])
        /\ req[r].hdr.token.tokenType = "access"
        /\ req[r].hdr.token.userId \notin users
        /\ RejectedByMiddleware(req[r])
        /\ req[r].reason = "Unable to get User"

\* C23: for a primary the middleware accepted, a body token that is well
\* signed and carries the primary's pairing identifier gives a result fixed
\* by its type alone, whether it has expired or not: a new pair if the types
\* differ, the type mismatch otherwise.
C23_SecondaryExpiryIgnored ==
    \A r \in Req :
        LET q == req[r]
        IN  (/\ RefreshHandled(q)
             /\ q.body.form = "jwt" /\ q.body.sig = "ok"
             /\ q.body.alg = JWTalgorithm
             /\ q.body.jti = q.jwtPayload.jti)
            => IF q.body.tokenType # q.jwtPayload.tokenType
               THEN ReturnsNewPair(q)
               ELSE /\ q.res = Unauthorized(RefreshDetail)
                    /\ q.reason = "Token pair mismatch: tokenType"

C23_ExpiredSecondaryAccepted ==
    \E r \in Req :
        /\ req[r].pc = "done"
        /\ RefreshHandled(req[r])
        /\ req[r].jwtPayload.tokenType = "refresh"
        /\ req[r].body.tokenType = "access"
        /\ req[r].body.jti = req[r].jwtPayload.jti
        /\ now >= req[r].body.exp
        /\ req[r].res.status = 200
        /\ req[r].set = Fulfilled(1)

\* C24: a step in which a request's revocation is answered leaves every
\* record of the deny-list as it was; if the pairing was there the deny-list
\* is unchanged and the command is answered without error, if not the
\* record written carries the time of this, the first, revocation.
RevocationAnswered(r) == req[r].set = NoReply /\ req'[r].set # NoReply

C24_FirstRevokeWins ==
    [][\A r \in Req :
         RevocationAnswered(r)
            => /\ \A j \in DOMAIN redis :
                    j \in DOMAIN redis' /\ redis'[j] = redis[j]
               /\ Live(req'[r].jwtPayload.jti, now)
                    => req'[r].set = Fulfilled(0) /\ redis' = redis
               /\ req'[r].set = Fulfilled(1)
                    => redis'[req'[r].jwtPayload.jti].ts = now]_vars

C24_SecondRevokeLater ==
    \E r \in Req :
        /\ req[r].pc = "done"
        /\ Accepted(req[r])
        /\ req[r].set = Fulfilled(0)
        /\ req[r].res.status \in {200, 204}
        /\ redis[req[r].jwtPayload.jti].ts < now

ResponsePending(q) ==
    q.pc \in {"mw_revoked", "mw_user", "destroy_wait"} => q.res = NoResponse

OneOutcome(q) ==
    /\ Accepted(q) => q.res # Unauthorized(MiddlewareDetail)
    /\ q.pc = "done"
         => /\ q.res # NoResponse
            /\ Accepted(q) \/ q.res = Unauthorized(MiddlewareDetail)
    /\ Accepted(q) /\ q.route = "PUT"
         => q.pc \in {"replace_finally", "done"} /\ q.res.status \in {200, 401}

ResponseKept(r) ==
    req[r].res # NoResponse /\ req'[r].pc # "idle" => req'[r].res = req[r].res

C27_NoRefreshAfterLogout ==
    \A r \in Req :
        req[r].pc = "replace_finally" /\ req[r].res.status = 200
            => pairs[req[r].jwtPayload.jti].loggedOut = "none"

\* C28: no step deletes or overwrites a revocation record, whatever the
\* operation (login, refresh, logout, protected route, removal of a user),
\* and a token presented after its pairing's record was written and before
\* the record's time-to-live has elapsed is never accepted.
RecordsKept ==
    DOMAIN redis \subseteq DOMAIN redis'
        /\ \A j \in DOMAIN redis : redis'[j].ts = redis[j].ts
                                     /\ redis'[j].ex = redis[j].ex

RevokedBeforeArrival(q) ==
    /\ Presents(q)
    /\ q.hdr.token.jti \in DOMAIN redis
    /\ redis[q.hdr.token.jti].ts < q.at
    /\ q.at < redis[q.hdr.token.jti].ex

C28_RecordsArePermanent ==
    /\ [][RecordsKept]_vars
    /\ [](\A r \in Req : RevokedBeforeArrival(req[r]) => NeverAccepted(req[r]))

C28_RevokedAfterLaterLogin ==
    \E r \in Req, k \in Issued :
        /\ RevokedBeforeArrival(req[r])
        /\ GenuineHeader(req[r])
        /\ pairs[k].parent = NoJti
        /\ pairs[k].iat > redis[req[r].hdr.token.jti].ts
        /\ req[r].pc = "done"
        /\ req[r].reason = "Token has been revoked"

\* C29: the finally block of a refresh writes at most the record of the
\* header token's pairing: every other key of the deny-list is as it was, and
\* when the refresh was rejected with a body token of another issuance, that
\* issuance's identifier is not added.
CleanupRuns(r) == req[r].pc = "replace_finally" /\ req'[r].pc = "done"

C29_OnlyPrimaryRevoked ==
    [][\A r \in Req :
         CleanupRuns(r)
            => /\ DOMAIN redis' \subseteq DOMAIN redis \cup {req[r].jwtPayload.jti}
               /\ \A k \in DOMAIN redis : redis'[k] = redis[k]
               /\ req[r].res.status = 401
                    /\ req[r].body.jti # req[r].jwtPayload.jti
                    /\ req[r].body.jti \notin DOMAIN redis
                     => req[r].body.jti \notin DOMAIN redis']_vars

C29_BodyOfOtherPairingRejected ==
    \E r \in Req :
        /\ req[r].pc = "done" /\ req[r].route = "PUT"
        /\ req[r].res = Unauthorized(RefreshDetail)
        /\ req[r].body \in GenuineTokens
        /\ req[r].body.jti # req[r].jwtPayload.jti
        /\ req[r].set = Fulfilled(1)
        /\ req[r].jwtPayload.jti \in DOMAIN redis
        /\ req[r].body.jti \notin DOMAIN redis

\* C30: a refresh handled without claims set by the middleware is answered
\* with 500; handling it issues no pair and writes nothing to the deny-list,
\* whatever tokens the request carries.
HandledWithoutClaims(r) ==
    req[r].pc = "idle" /\ req'[r].pc # "idle" /\ req'[r].route = "PUT"

C30_MissingClaimsIs500 ==
    /\ [](\A r \in Req :
            req[r].pc # "idle" /\ req[r].route = "PUT"
               => /\ req[r].jwtPayload = Absent
                  /\ req[r].pc = "done"
                  /\ req[r].res = MissingJwtPayload
                  /\ req[r].set = NoReply)
    /\ [][\A r \in Req :
            HandledWithoutClaims(r) => pairs' = pairs /\ redis' = redis]_vars

C30_ValidPairWithoutMiddleware ==
    \E r \in Req :
        /\ req[r].pc = "done" /\ req[r].route = "PUT"
        /\ req[r].hdr.scheme = "Bearer"
        /\ req[r].hdr.token \in GenuineTokens
        /\ req[r].hdr.token.tokenType = "access"
        /\ req[r].at < req[r].hdr.token.exp
        /\ req[r].body = Partner(req[r].hdr.token)
        /\ req[r].res.status = 500
        /\ redis = <<>>

====
